---- MODULE Spec2Model ----
(***************************************************************************)
(* Presence detection of tpms.py: detect_home_intervals (gap bridging over *)
(* minute bins), parse_lines (log ingestion) and the part of main that     *)
(* connects them.  Time is counted in whole seconds from a minute-aligned  *)
(* origin; the code drops seconds and microseconds with                    *)
(* replace(second=0, microsecond=0), so nothing finer is observable.       *)
(***************************************************************************)
EXTENDS Integers, Sequences, FiniteSets, TLC

VARIABLES
    times,            \* argument times of detect_home_intervals
    bin_seconds,      \* argument bin_seconds
    window_minutes,   \* argument window_minutes
    pc,               \* position in detect_home_intervals
    start,            \* local start
    end,              \* local end (exclusive end marker)
    evidence,         \* local evidence: bin -> count (missing keys read 0)
    intervals,        \* local intervals, the returned list
    in_home,          \* local in_home
    first_seen,       \* local first_seen
    last_seen,        \* local last_seen
    t,                \* loop variable t
    visited,          \* history: the values of t for which the loop body ran
    entered,          \* history: the values of t at which line 194 ran
    raised,           \* the exception that left the program, or "none"
    lines,            \* parse_lines: the lines of the log, in file order
    cfg,              \* parse_lines: its filter arguments
    li,               \* parse_lines: index of the next line to read
    rows,             \* parse_lines: local rows
    ppc,              \* position in parse_lines
    report,           \* what main printed after detection
    bin_minutes,      \* plot_home_raster: argument bin_minutes
    grid,             \* plot_home_raster: the cells <<day column, row>> set to 1
    plot_pc           \* position in plot_home_raster

dvars == <<times, bin_seconds, window_minutes, pc, start, end, evidence,
           intervals, in_home, first_seen, last_seen, t, visited, entered>>
gvars == <<bin_minutes, grid, plot_pc>>
pvars == <<lines, cfg, li, rows, ppc, report, gvars>>
vars == <<dvars, raised, pvars>>

\* ---------------------------------------------------------------- bounds
MaxEvents == 3        \* longest event list of the bounded inputs
MaxMinute == 3        \* latest minute of a bounded event
MaxWindow == 3        \* largest window_minutes of the bounded inputs
MaxUnderflow == 2     \* minutes below the origin a backward loop is followed
MaxRunaway == 3       \* intervals a loop that never advances is followed to
MaxLines == 2         \* longest log of the bounded inputs

\* ------------------------------------------------------------- constants
DefaultBinSeconds == 60       \* --bin-seconds, default
DefaultWindowMinutes == 10    \* --window-minutes, default
DefaultBinMinutes == 5        \* bin_minutes, default
SecondsPerDay == 86400        \* timedelta(days=1)

\* ---------------------------------------------------------------- values
\* Python's None for first_seen / last_seen / start / end.
None == -1000000

\* seconds within the minute that the bounded events carry
SecOffsets == {0, 45}
EventTimes == {m * 60 + s : m \in 0..MaxMinute, s \in SecOffsets}
\* values of --bin-seconds (type=int: any integer is accepted)
BinSteps == {-60, 0, 30, 60, 90}
\* values of --window-minutes (type=int)
Windows == -1..MaxWindow

TimeLists == UNION {[1..n -> EventTimes] : n \in 0..MaxEvents}

\* ------------------------------------------------ detect_home_intervals
\* t.replace(second=0, microsecond=0)
MinuteBin(x) == (x \div 60) * 60

\* Variant: start = times[0], not aligned to the minute.
StartMarkerRaw(ts) == ts[1]
\* start = times[0].replace(second=0, microsecond=0)
StartMarker(ts) == MinuteBin(ts[1])

\* Variant: the end marker without the extra minute.
EndMarkerNoExtraMinute(ts) == MinuteBin(ts[Len(ts)])
\* end = times[-1].replace(second=0, microsecond=0) + timedelta(minutes=1)
EndMarker(ts) == MinuteBin(ts[Len(ts)]) + 60

\* evidence = defaultdict(int); for t in times: evidence[tbin] += 1
BuildEvidence(ts) ==
    LET keys == {MinuteBin(ts[i]) : i \in 1..Len(ts)}
    IN  [b \in keys |-> Cardinality({i \in 1..Len(ts) : MinuteBin(ts[i]) = b})]

\* evidence[t] of a defaultdict(int): a missing key reads 0
EvidenceAt(ev, x) == IF x \in DOMAIN ev THEN ev[x] ELSE 0

\* Variant: >= in place of >.
SeenNonNegative(ev, x) == EvidenceAt(ev, x) >= 0
\* seen = evidence[t] > 0
Seen(ev, x) == EvidenceAt(ev, x) > 0

\* Variant: timedelta(seconds=window_minutes).
WindowDeltaSeconds(w) == w
\* window = timedelta(minutes=window_minutes)
WindowDelta(w) == w * 60

\* (t - last_seen) > window
GapExceeded(x, ls, window) == (x - ls) > window

\* Variant: intervals.insert(0, ...).
CloseIntervalPrepend(ivs, fs, ls) == <<(<<fs, ls>>)>> \o ivs
\* intervals.append((first_seen, last_seen))
CloseInterval(ivs, fs, ls) == Append(ivs, <<fs, ls>>)

\* Variant: an empty list raises.
OnEmptyRaise == [intervals |-> <<>>, raised |-> "EmptyInput"]
\* if not times: return []
OnEmpty == [intervals |-> <<>>, raised |-> "none"]

\* The locals of the stepping loop as one record.
Locals ==
    [evidence |-> evidence, window |-> WindowDelta(window_minutes),
     step |-> bin_seconds, end |-> end, intervals |-> intervals,
     in_home |-> in_home, first_seen |-> first_seen, last_seen |-> last_seen,
     t |-> t]

\* The locals after lines 174-188, before the first test of the loop.
Entry(ts, b, w) ==
    [evidence |-> BuildEvidence(ts), window |-> WindowDelta(w), step |-> b,
     end |-> EndMarker(ts), intervals |-> <<>>, in_home |-> FALSE,
     first_seen |-> None, last_seen |-> None, t |-> StartMarker(ts)]

\* One pass through the body of `while t < end`.
Body(s) ==
    LET seen   == Seen(s.evidence, s.t)
        home1  == IF seen THEN TRUE ELSE s.in_home
        first1 == IF seen /\ ~s.in_home THEN s.t ELSE s.first_seen
        last1  == IF seen THEN s.t ELSE s.last_seen
        close  == home1 /\ last1 # None /\ GapExceeded(s.t, last1, s.window)
    IN  [s EXCEPT
           !.intervals  = IF close THEN CloseInterval(@, first1, last1) ELSE @,
           !.in_home    = IF close THEN FALSE ELSE home1,
           !.first_seen = IF close THEN None ELSE first1,
           !.last_seen  = IF close THEN None ELSE last1,
           !.t          = s.t + s.step]

\* Lines 192-194 are reached: the bin is seen while not in_home.
EntersHome(s) == Seen(s.evidence, s.t) /\ ~s.in_home

\* Variant: no close after the loop.
FinalNoClose(s) == s.intervals
\* The statement after the loop and the return value.
Final(s) ==
    IF s.in_home /\ s.first_seen # None /\ s.last_seen # None
    THEN CloseInterval(s.intervals, s.first_seen, s.last_seen)
    ELSE s.intervals

\* The loop run to its end; it ends only for a positive step.
RECURSIVE RunLoop(_)
RunLoop(s) == IF s.t < s.end THEN RunLoop(Body(s)) ELSE Final(s)

\* The value detect_home_intervals returns, for bin_seconds > 0.
DetectHomeIntervals(ts, b, w) ==
    IF Len(ts) = 0 THEN OnEmpty.intervals ELSE RunLoop(Entry(ts, b, w))

\* ------------------------------------------------------------- actions
\* A call with an empty list: lines 171-172.
CallEmpty ==
    /\ pc = "call"
    /\ Len(times) = 0
    /\ intervals' = OnEmpty.intervals
    /\ raised' = OnEmpty.raised
    /\ pc' = "done"
    /\ UNCHANGED <<times, bin_seconds, window_minutes, start, end, evidence,
                   in_home, first_seen, last_seen, t, visited, entered, pvars>>

\* A call with events: lines 174-188.
CallStart ==
    /\ pc = "call"
    /\ Len(times) > 0
    /\ LET e == Entry(times, bin_seconds, window_minutes)
       IN  /\ start' = e.t
           /\ end' = e.end
           /\ evidence' = e.evidence
           /\ intervals' = e.intervals
           /\ in_home' = e.in_home
           /\ first_seen' = e.first_seen
           /\ last_seen' = e.last_seen
           /\ t' = e.t
    /\ pc' = "loop"
    /\ UNCHANGED <<times, bin_seconds, window_minutes, visited, entered,
                   raised, pvars>>

\* One iteration of the loop: lines 189-205.  A loop whose step is not
\* positive never ends; it is followed MaxUnderflow minutes below the origin
\* and until it has appended MaxRunaway intervals.
LoopStep ==
    /\ pc = "loop"
    /\ t < end
    /\ \/ bin_seconds > 0
       \/ t >= -(MaxUnderflow * 60) /\ Len(intervals) < MaxRunaway
    /\ LET n == Body(Locals)
       IN  /\ intervals' = n.intervals
           /\ in_home' = n.in_home
           /\ first_seen' = n.first_seen
           /\ last_seen' = n.last_seen
           /\ t' = n.t
    /\ visited' = visited \cup {t}
    /\ entered' = IF EntersHome(Locals) THEN Append(entered, t) ELSE entered
    /\ UNCHANGED <<times, bin_seconds, window_minutes, pc, start, end,
                   evidence, raised, pvars>>

\* The loop test fails: lines 207-210.
LoopExit ==
    /\ pc = "loop"
    /\ ~(t < end)
    /\ intervals' = Final(Locals)
    /\ pc' = "done"
    /\ UNCHANGED <<times, bin_seconds, window_minutes, start, end, evidence,
                   in_home, first_seen, last_seen, t, visited, entered, raised,
                   pvars>>

\* ----------------------------------------------------------- parse_lines
\* A line of the log, by what the code reads of it:
\*   kind     "blank"   empty after strip()
\*            "invalid" json.loads raises
\*            "scalar"  json.loads returns a value that is not a dict
\*            "object"  json.loads returns a dict
\*   id       obj.get("id") as a string, "none" for a missing or null id
\*   model    obj.get("model") as a string, "none" when missing
\*   timekind "missing" no "time" key, "bad" fromisoformat raises, "iso"
\*   time     the parsed time, when timekind = "iso"
OtherLine(k) ==
    [kind |-> k, id |-> "none", model |-> "none", timekind |-> "missing", time |-> 0]
LogTimes == {0, 105, 180}
ObjectLines ==
    [kind : {"object"}, id : {"none", "a", "b"}, model : {"none", "M"},
     timekind : {"iso"}, time : LogTimes]
    \cup [kind : {"object"}, id : {"none", "a", "b"}, model : {"none", "M"},
          timekind : {"missing", "bad"}, time : {0}]
LineShapes == {OtherLine("blank"), OtherLine("invalid"), OtherLine("scalar")}
              \cup ObjectLines
Logs == UNION {[1..n -> LineShapes] : n \in 0..MaxLines}

\* The filter arguments: allowed_sensors / allowed_ids (use_* is "is not
\* None") and start_dt / end_dt (None when no date is given).
FilterConfigs ==
    {[use_sensors |-> TRUE, allowed_sensors |-> {<<"M", "a">>},
      use_ids |-> FALSE, allowed_ids |-> {}, start_dt |-> None, end_dt |-> None],
     [use_sensors |-> FALSE, allowed_sensors |-> {},
      use_ids |-> TRUE, allowed_ids |-> {"a", "b"}, start_dt |-> 60, end_dt |-> None],
     [use_sensors |-> FALSE, allowed_sensors |-> {},
      use_ids |-> FALSE, allowed_ids |-> {}, start_dt |-> None, end_dt |-> 179]}

\* What the body of `for line in f` does with one line: lines 76-153.
\*   "skip"   a continue statement is reached
\*   "abort"  an exception leaves parse_lines
\*   "row"    rows.append(...) is reached
\* sid = obj.get("id") on a value that is not a dict raises AttributeError,
\* outside any try block
ScalarOutcome(ln, c) == "abort"

LineOutcome(ln, c) ==
    IF ln.kind = "blank" THEN "skip"
    ELSE IF ln.kind = "invalid" THEN "skip"
    ELSE IF ln.kind = "scalar" THEN ScalarOutcome(ln, c)
    ELSE IF ln.id = "none" THEN "skip"
    ELSE IF c.use_sensors
            /\ (ln.model = "none" \/ <<ln.model, ln.id>> \notin c.allowed_sensors)
         THEN "skip"
    ELSE IF ~c.use_sensors /\ c.use_ids /\ ln.id \notin c.allowed_ids THEN "skip"
    ELSE IF ln.timekind # "iso" THEN "skip"
    ELSE IF c.start_dt # None /\ ln.time < c.start_dt THEN "skip"
    ELSE IF c.end_dt # None /\ ln.time > c.end_dt THEN "skip"
    ELSE "row"

\* rows.append((t, model_s, sid_s, fields)); the fields are not modelled
RowOf(ln) == [t |-> ln.time, model |-> ln.model, sid |-> ln.id]

\* rows.sort(key=lambda x: x[0]): a stable sort by time
RECURSIVE InsertRow(_, _)
InsertRow(sorted, r) ==
    IF sorted = <<>> THEN <<r>>
    ELSE IF sorted[Len(sorted)].t <= r.t THEN Append(sorted, r)
    ELSE Append(InsertRow(SubSeq(sorted, 1, Len(sorted) - 1), r), sorted[Len(sorted)])

RECURSIVE SortRows(_)
SortRows(rs) ==
    IF rs = <<>> THEN <<>>
    ELSE InsertRow(SortRows(SubSeq(rs, 1, Len(rs) - 1)), rs[Len(rs)])

\* One line of the log is read and handled: lines 75-153.
ParseLine ==
    /\ ppc = "read"
    /\ li <= Len(lines)
    /\ LET o == LineOutcome(lines[li], cfg)
       IN  /\ rows' = IF o = "row" THEN Append(rows, RowOf(lines[li])) ELSE rows
           /\ ppc' = IF o = "abort" THEN "aborted" ELSE "read"
           /\ raised' = IF o = "abort" THEN "AttributeError" ELSE raised
    /\ li' = li + 1
    /\ UNCHANGED <<dvars, lines, cfg, report, gvars>>

\* The log is exhausted: lines 155-156.
ParseReturn ==
    /\ ppc = "read"
    /\ li > Len(lines)
    /\ rows' = SortRows(rows)
    /\ ppc' = "returned"
    /\ UNCHANGED <<dvars, raised, lines, cfg, li, report, gvars>>

\* ------------------------------------------------------------------ main
\* times = [t for (t, _, _, _) in rows]
RowTimes(rs) == [i \in 1..Len(rs) |-> rs[i].t]

\* main calls detect_home_intervals with the parsed times: lines 337-344.
MainCall ==
    /\ ppc = "returned"
    /\ pc = "idle"
    /\ times' = RowTimes(rows)
    /\ pc' = "call"
    /\ UNCHANGED <<bin_seconds, window_minutes, start, end, evidence, intervals,
                   in_home, first_seen, last_seen, t, visited, entered, raised,
                   pvars>>

\* main reports the result: lines 346-360.  With no interval it prints
\* "No HOME intervals detected" and returns.  Otherwise it prints the first
\* intervals and calls plot_home_raster(..., out_prefix=...), a keyword the
\* function of plots.py (lines 81-86) does not take: the call raises
\* TypeError before the function body runs.
MainReport ==
    /\ ppc = "returned"
    /\ pc = "done"
    /\ report = "none"
    /\ report' = IF intervals = <<>> THEN "no_home" ELSE "intervals"
    /\ raised' = IF intervals = <<>> THEN raised ELSE "TypeError"
    /\ UNCHANGED <<dvars, lines, cfg, li, rows, ppc, gvars>>

\* ------------------------------------------------------ plot_home_raster
\* Times are seconds from the midnight that starts day 0.
\* a.date()
DateOf(x) == x \div SecondsPerDay

Max2(x, y) == IF x >= y THEN x ELSE y
Min2(x, y) == IF x <= y THEN x ELSE y

\* start_day = min(a.date() for a, _ in home_intervals)
StartDay(ivs) ==
    LET ds == {DateOf(ivs[i][1]) : i \in 1..Len(ivs)}
    IN  CHOOSE d \in ds : \A e \in ds : d <= e

\* bins_per_day = (24 * 60) // bin_minutes
BinsPerDay(bm) == (24 * 60) \div bm

\* if b <= a: continue
SkipsInterval(a, b) == b <= a

\* The cells one day of one interval sets: lines 122-138.
DayCells(a, b, day, x, bm) ==
    LET day_start == day * SecondsPerDay
        day_end   == day_start + SecondsPerDay
        seg_start == Max2(a, day_start)
        seg_end   == Min2(b, day_end)
        s_min     == (seg_start - day_start) \div 60
        e_min     == (seg_end - day_start) \div 60
        s_bin     == Max2(0, Min2(BinsPerDay(bm), s_min \div bm))
        e_bin     == Max2(0, Min2(BinsPerDay(bm), (e_min + bm - 1) \div bm))
    IN  IF seg_end > seg_start /\ e_bin > s_bin
        THEN {<<x, k>> : k \in s_bin..(e_bin - 1)}
        ELSE {}

\* The cells one interval sets: lines 110-140.  Every day of the interval
\* has a column, so day_to_x.get(day) is never None.
IntervalCells(a, b, start_day, bm) ==
    IF SkipsInterval(a, b) THEN {}
    ELSE UNION {DayCells(a, b, day, day - start_day, bm) :
                   day \in DateOf(a)..DateOf(b)}

\* The grid after the loop of lines 110-140.
RasterGrid(ivs, bm) ==
    UNION {IntervalCells(ivs[i][1], ivs[i][2], StartDay(ivs), bm) :
              i \in 1..Len(ivs)}

\* values of bin_minutes
BinMinutes == {1, DefaultBinMinutes}

\* plot_home_raster(intervals, bin_minutes) is called on the list the
\* detector returned: plots.py lines 81-190.  An empty list raises
\* ValueError (lines 92-93).
PlotCall ==
    /\ pc = "done"
    /\ plot_pc = "idle"
    /\ \E bm \in BinMinutes :
          /\ bin_minutes' = bm
          /\ grid' = IF intervals = <<>> THEN {} ELSE RasterGrid(intervals, bm)
    /\ raised' = IF intervals = <<>> THEN "ValueError" ELSE raised
    /\ plot_pc' = IF intervals = <<>> THEN "raised" ELSE "done"
    /\ UNCHANGED <<dvars, lines, cfg, li, rows, ppc, report>>

\* -------------------------------------------------------- specifications
ExampleA ==
    [times |-> <<0, 60, 120, 3000>>, bin_seconds |-> 60, window_minutes |-> 10]

Inputs ==
    [times : TimeLists, bin_seconds : BinSteps, window_minutes : Windows]
    \cup {ExampleA}

InitLocals ==
    /\ start = None
    /\ end = None
    /\ evidence = <<>>
    /\ intervals = <<>>
    /\ in_home = FALSE
    /\ first_seen = None
    /\ last_seen = None
    /\ t = None
    /\ visited = {}
    /\ entered = <<>>
    /\ raised = "none"
    /\ report = "none"
    /\ bin_minutes = DefaultBinMinutes
    /\ grid = {}
    /\ plot_pc = "idle"

\* detect_home_intervals is called on any list of events.
Init ==
    /\ \E i \in Inputs :
          /\ times = i.times
          /\ bin_seconds = i.bin_seconds
          /\ window_minutes = i.window_minutes
    /\ pc = "call"
    /\ InitLocals
    /\ lines = <<>>
    /\ cfg \in {c \in FilterConfigs : c.use_sensors}
    /\ li = 1
    /\ rows = <<>>
    /\ ppc = "idle"

Next == CallEmpty \/ CallStart \/ LoopStep \/ LoopExit

Spec == Init /\ [][Next]_vars

\* detect_home_intervals is called on any list of events, or on one that
\* crosses midnight, and plot_home_raster on the list it returns.
ExampleMidnight ==
    [times |-> <<SecondsPerDay - 60, SecondsPerDay>>, bin_seconds |-> 60,
     window_minutes |-> 10]

InitPlot ==
    /\ \E i \in Inputs \cup {ExampleMidnight} :
          /\ times = i.times
          /\ bin_seconds = i.bin_seconds
          /\ window_minutes = i.window_minutes
    /\ pc = "call"
    /\ InitLocals
    /\ lines = <<>>
    /\ cfg \in {c \in FilterConfigs : c.use_sensors}
    /\ li = 1
    /\ rows = <<>>
    /\ ppc = "idle"

NextPlot == CallEmpty \/ CallStart \/ LoopStep \/ LoopExit \/ PlotCall

SpecPlot == InitPlot /\ [][NextPlot]_vars

\* The body of main (lines 305-360), run with the default --bin-seconds and
\* --window-minutes: parse_lines on a log, then detect_home_intervals on its
\* times.  tpms.py imports plot_series from plots (line 10), which plots.py
\* does not define; the body is modelled as it runs once the module loads.
InitMain ==
    /\ lines \in Logs
    /\ cfg \in FilterConfigs
    /\ li = 1
    /\ rows = <<>>
    /\ ppc = "read"
    /\ times = <<>>
    /\ bin_seconds = DefaultBinSeconds
    /\ window_minutes = DefaultWindowMinutes
    /\ pc = "idle"
    /\ InitLocals

NextMain ==
    \/ ParseLine
    \/ ParseReturn
    \/ MainCall
    \/ CallEmpty
    \/ CallStart
    \/ LoopStep
    \/ LoopExit
    \/ MainReport

SpecMain == InitMain /\ [][NextMain]_vars

\* ------------------------------------------------------------ properties
\* The bins the loop visited and found seen.
VisitedSeen == {b \in visited : EvidenceAt(evidence, b) > 0}

\* Two seen bins with no seen bin between them.
ConsecutiveSeen(b1, b2) ==
    /\ b1 \in VisitedSeen
    /\ b2 \in VisitedSeen
    /\ b1 < b2
    /\ ~(\E b \in VisitedSeen : b1 < b /\ b < b2)

\* Both bins lie in one interval of the output.
SameInterval(b1, b2) ==
    \E i \in 1..Len(intervals) : intervals[i][1] <= b1 /\ b2 <= intervals[i][2]

IsSorted(ts) == \A i \in 1..(Len(ts) - 1) : ts[i] <= ts[i + 1]

SeqMin(ts) == CHOOSE x \in {ts[i] : i \in 1..Len(ts)} :
                 \A j \in 1..Len(ts) : x <= ts[j]
SeqMax(ts) == CHOOSE x \in {ts[i] : i \in 1..Len(ts)} :
                 \A j \in 1..Len(ts) : x >= ts[j]

\* Every reordering of a list.
Reorderings(ts) ==
    {[i \in 1..Len(ts) |-> ts[f[i]]] : f \in Permutations(1..Len(ts))}

\* The bin of width d that holds x: floor(x / d) * d.
DeltaBin(x, d) == (x \div d) * d

\* C1: the list detect_home_intervals returns is strictly ordered and
\* disjoint: every interval has start <= end, and each interval ends strictly
\* before the next one starts, for every event list, window and bin step.
C1_OrderedDisjoint ==
    pc = "done" =>
        \A i \in 1..Len(intervals) :
            /\ intervals[i][1] <= intervals[i][2]
            /\ i < Len(intervals) => intervals[i][2] < intervals[i + 1][1]

C1_Witness ==
    /\ pc = "done"
    /\ Len(intervals) >= 2
    /\ \E i \in 1..Len(intervals) : intervals[i][1] < intervals[i][2]

\* C2: the end of every emitted interval, closed by a gap or at the end of
\* the stream, is a bin the loop visited and that holds at least one event;
\* it is never a bin without evidence.
C2_EndIsSeenBin ==
    \A i \in 1..Len(intervals) :
        /\ intervals[i][2] \in visited
        /\ EvidenceAt(evidence, intervals[i][2]) >= 1

\* One interval closed by a gap and one closed at the end of the stream,
\* after bins without evidence were stepped through.
C2_Witness ==
    /\ pc = "done"
    /\ Len(intervals) >= 2
    /\ \E b \in visited : EvidenceAt(evidence, b) = 0
    /\ intervals[Len(intervals)][2] = last_seen

\* C3: with 60-second bins, two consecutive seen bins more than W minutes
\* apart end up in different intervals; events only at minute 0 and minute
\* W+1 give two intervals.
C3_GapSplits ==
    (pc = "done" /\ bin_seconds = 60) =>
        /\ \A b1, b2 \in VisitedSeen :
              (ConsecutiveSeen(b1, b2) /\ b2 - b1 > window_minutes * 60)
                  => ~SameInterval(b1, b2)
        /\ (window_minutes >= 0 /\ times = <<0, (window_minutes + 1) * 60>>)
              => Len(intervals) = 2

\* C4: with 60-second bins, two consecutive seen bins at most W minutes
\* apart lie in the same output interval; events only at minute 0 and minute
\* W-1 give the single interval [0, W-1].
C4_ShortGapBridged ==
    (pc = "done" /\ bin_seconds = 60) =>
        /\ \A b1, b2 \in VisitedSeen :
              (ConsecutiveSeen(b1, b2) /\ b2 - b1 <= window_minutes * 60)
                  => SameInterval(b1, b2)
        /\ (window_minutes >= 1 /\ times = <<0, (window_minutes - 1) * 60>>)
              => intervals = <<(<<0, (window_minutes - 1) * 60>>)>>

\* Events at minute 0 and minute W-1 with a bin without events between them.
C4_Witness ==
    /\ pc = "done"
    /\ bin_seconds = 60
    /\ window_minutes >= 3
    /\ times = <<0, (window_minutes - 1) * 60>>
    /\ Len(intervals) = 1
    /\ \E b \in visited : EvidenceAt(evidence, b) = 0

\* C5: events at minutes 0, 1, 2 and 50 with window_minutes=10 and
\* bin_seconds=60 give exactly the intervals [0, 2] and [50, 50], in order.
C5_Example ==
    (/\ pc = "done"
     /\ times = <<0, 60, 120, 3000>>
     /\ bin_seconds = 60
     /\ window_minutes = 10)
        => intervals = <<(<<0, 120>>), (<<3000, 3000>>)>>

C5_Witness ==
    /\ pc = "done"
    /\ times = <<0, 60, 120, 3000>>
    /\ bin_seconds = 60
    /\ window_minutes = 10
    /\ Len(intervals) = 2

C7_NonPositiveStepRejected ==
    bin_seconds <= 0 =>
        /\ visited = {}
        /\ pc # "loop"
        /\ pc = "done" => raised = "InvalidParameter"

\* C8: the result does not depend on the order of the events: every
\* reordering of a non-empty list gives the list returned, and the timeline
\* runs from the bin of the earliest event to the bin of the latest.
C8_OrderIndependent ==
    (pc = "done" /\ times # <<>> /\ bin_seconds > 0) =>
        /\ \A p \in Reorderings(times) :
              DetectHomeIntervals(p, bin_seconds, window_minutes) = intervals
        /\ start = MinuteBin(SeqMin(times))
        /\ end = MinuteBin(SeqMax(times)) + 60

\* C9: for every positive bin step d, each event is counted in the bin
\* floor(t/d)*d, and the loop visits that bin; the bin an event was counted
\* in is one the loop visits, so no event is skipped.
C9_DeltaAligned ==
    (pc = "done" /\ bin_seconds > 0 /\ IsSorted(times)) =>
        \A i \in 1..Len(times) :
            LET b == DeltaBin(times[i], bin_seconds)
            IN  /\ b \in visited
                /\ MinuteBin(times[i]) \in visited
                /\ EvidenceAt(evidence, b) =
                     Cardinality({j \in 1..Len(times) :
                                    DeltaBin(times[j], bin_seconds) = b})

\* C10: no single record of the log aborts parse_lines: every malformed
\* line is skipped and reading goes on.
C10_NoRecordAborts ==
    /\ ppc # "aborted"
    /\ raised # "AttributeError"
\* C11: a bin is seen iff its count is >= 1.  A seen bin met while AWAY
\* makes the machine HOME in that step with that bin as the interval's
\* start, and an unseen bin met while AWAY leaves it AWAY; every interval
\* start is a visited bin with evidence at which the machine was AWAY; and
\* for sorted input the first interval starts at the earliest event's bin.
C11_StartsAtSeenBins ==
    /\ \A i \in 1..Len(intervals) :
          /\ i <= Len(entered)
          /\ intervals[i][1] = entered[i]
          /\ entered[i] \in visited
          /\ EvidenceAt(evidence, entered[i]) >= 1
    /\ in_home => (Len(entered) > 0 /\ first_seen = entered[Len(entered)])
    /\ (pc = "done" /\ bin_seconds > 0 /\ times # <<>> /\ IsSorted(times)) =>
          /\ Len(intervals) >= 1
          /\ intervals[1][1] = MinuteBin(SeqMin(times))

C11_Step ==
    (pc = "loop" /\ pc' = "loop" /\ ~in_home) =>
        IF EvidenceAt(evidence, t) >= 1
        THEN \/ in_home' /\ first_seen' = t /\ intervals' = intervals
             \/ /\ ~in_home'
                /\ window_minutes < 0
                /\ intervals' = Append(intervals, <<t, t>>)
        ELSE ~in_home' /\ intervals' = intervals

C11_AwayToHome == []C11_StartsAtSeenBins /\ [][C11_Step]_vars

\* Two intervals, the second one opened at a seen bin after a gap.
C11_Witness ==
    /\ pc = "done"
    /\ IsSorted(times)
    /\ window_minutes >= 0
    /\ Len(intervals) = 2
    /\ entered = <<intervals[1][1], intervals[2][1]>>
    /\ intervals[1][1] = MinuteBin(times[1])

\* C12: no open interval is lost.  While the loop runs, the AWAY -> HOME
\* transitions so far are the closed intervals plus the open one; when the
\* call has returned, the output has exactly one interval per transition,
\* and if the machine was still HOME at the end marker the last interval is
\* the final close [first_seen, last_seen].
C12_NoIntervalLost ==
    /\ pc = "loop" =>
          Len(entered) = Len(intervals) + (IF in_home THEN 1 ELSE 0)
    /\ pc = "done" =>
          /\ Len(intervals) = Len(entered)
          /\ in_home =>
                /\ Len(intervals) >= 1
                /\ intervals[Len(intervals)] = <<first_seen, last_seen>>

\* One interval closed by a gap and one closed at the end marker.
C12_Witness ==
    /\ pc = "done"
    /\ in_home
    /\ Len(intervals) = 2
    /\ Len(entered) = 2
    /\ intervals[2][1] < intervals[2][2]

\* A cell <<x, k>> of the raster and the interval [a, b] share an instant.
CellTouches(c, a, b) ==
    LET cell_start == (c[1] + StartDay(intervals)) * SecondsPerDay
                        + c[2] * bin_minutes * 60
    IN  a < cell_start + bin_minutes * 60 /\ b >= cell_start

\* C13: plot_home_raster sets at least one cell for every interval of the
\* list it is given, an interval with start = end included.
C13_EveryIntervalVisible ==
    plot_pc = "done" =>
        \A i \in 1..Len(intervals) :
            \E c \in grid : CellTouches(c, intervals[i][1], intervals[i][2])
====
